---- MODULE Spec2Model ----
(***************************************************************************)
(* DreamInk API (src/main.py): the template composer craft_lines, the      *)
(* image URL builder image_for, the POST /generate handler and the         *)
(* GET /test diagnostic probe.                                             *)
(*                                                                         *)
(* Text is a sequence of tokens.  A token is one character (" ", "\n",     *)
(* "/", ...) or a chunk of literal text that is never cut; the             *)
(* concatenation of the tokens of a template is the template string of the *)
(* source.  The word "a" is a token of its own wherever it stands alone in *)
(* a template, because prompts range over it.                              *)
(***************************************************************************)
EXTENDS Integers, Sequences, FiniteSets, TLC

VARIABLES phase, req, args, words, lines, error, rngDraws, resp, calls, env, probe

vars == <<phase, req, args, words, lines, error, rngDraws, resp, calls, env, probe>>

----------------------------------------------------------------------------
(* Bounds of the model *)

\* longest prompt, in tokens, of a request to POST /generate
MaxPromptLen == 3
\* most collections the database lists
MaxCollections == 12
\* longest prompt, in tokens, of a direct call of craft_lines
MaxDirectLen == 1
\* draws the shared random source serves before the model stops calling it
MaxDraws == 7

----------------------------------------------------------------------------
(* Helpers *)

Min(a, b) == IF a < b THEN a ELSE b

SetMin(S) == CHOOSE x \in S : \A y \in S : x <= y

SetMax(S) == CHOOSE x \in S : \A y \in S : x >= y

RECURSIVE Concat(_)
Concat(ss) == IF ss = <<>> THEN <<>> ELSE Head(ss) \o Concat(Tail(ss))

SeqsUpTo(S, n) == UNION {[1..k -> S] : k \in 0..n}

\* s occurs in t as a contiguous run of tokens (Python: s in t)
Contains(t, s) ==
  \E k \in 0..(Len(t) - Len(s)) : \A i \in 1..Len(s) : t[k + i] = s[i]

----------------------------------------------------------------------------
(* Static tables of craft_lines *)

Moods == {"Romantic", "Melancholic", "Hopeful", "Dreamlike", "Haunting"}

Formats == {"Poem", "Short Story", "Haiku", "Microfiction"}

palettes ==
  [m \in Moods |->
    IF m = "Romantic" THEN <<"rose", "heartbeat", "velvet", "starlit", "whisper", "tender">>
    ELSE IF m = "Melancholic" THEN <<"rain", "echo", "ashen", "window", "ache", "distant">>
    ELSE IF m = "Hopeful" THEN <<"dawn", "warmth", "seed", "lift", "promise", "bright">>
    ELSE IF m = "Dreamlike" THEN <<"silk", "float", "mist", "lantern", "lucid", "drift">>
    ELSE <<"hollow", "candle", "shadow", "marrow", "threshold", "murmur">>]

tone_lines ==
  [f \in Formats |->
    IF f = "Poem" THEN 8
    ELSE IF f = "Short Story" THEN 14
    ELSE IF f = "Haiku" THEN 3
    ELSE 5]

structures ==
  [format \in Formats |->
  IF format = "Poem" THEN <<
      << "{prompt}", " ", "{w1}", " in the ", "{w2}", " of night" >>,
      << "I fold ", "a", " ", "{w3}", " letter to the sky" >>,
      << "between breaths, ", "{w4}", " syllables glow" >>,
      << "your name is ", "a", " small ", "{w5}", " constellating" >>,
      << "the world tilts toward ", "a", " quiet ", "{w6}" >>,
      << "and somewhere, the future loosens its hands" >>,
      << "we step into ", "a", " doorway made of hush" >>,
      << "and call it home for one more luminous minute" >>
    >>
  ELSE IF format = "Short Story" THEN <<
      << "The evening learned our names before we spoke." >>,
      << "{prompt}", " was only ", "a", " rumor the moon kept repeating." >>,
      << "In the kitchen, ", "a", " ", "{w1}", " clock dripped time into ", "a", " chipped mug." >>,
      << "We traded secrets like small ", "{w2}", " coins, warm from the palm." >>,
      << "Outside, the alley held its breath, all ", "{w3}", " and listening." >>,
      << "You said tomorrow, and the word wavered, ", "a", " ", "{w4}", " lantern." >>,
      << "I wanted to believe in the simple machinery of hope." >>,
      << "We walked past windows where strangers practiced happiness." >>,
      << "The city unfurled, ", "a", " long ", "{w5}", " ribbon of headlights." >>,
      << "At the river, someone had left ", "a", " message in the reeds." >>,
      << "It said: keep going. It said: the door is almost open." >>,
      << "We did not turn back. The night followed, gentle and ", "{w6}", "." >>,
      << "Somewhere ", "a", " small animal remembered our footsteps." >>,
      << "And the future, patient, set another place at the table." >>
    >>
  ELSE IF format = "Haiku" THEN <<
      << "{prompt}", " in mist" >>,
      << "a", " ", "{w1}", " window breathing" >>,
      << "dawn learns our ", "{w2}" >>
    >>
  ELSE IF format = "Microfiction" THEN <<
      << "We met where ", "{prompt}", " became ", "a", " password." >>,
      << "You laughed, and the ", "{w1}", " street forgot its loneliness." >>,
      << "We promised only this: to listen for ", "{w2}", " doors opening." >>,
      << "Night wrote our names on its ", "{w3}", " palm and did not close its hand." >>,
      << "In the morning, one small ", "{w4}", " miracle was still there, waiting." >>
    >>
  ELSE <<>>]

----------------------------------------------------------------------------
(* craft_lines *)

Whitespace == {" ", "\n", "\t"}

\* str.strip(): drop the whitespace at both ends
Strip(s) ==
  LET keep == {i \in 1..Len(s) : s[i] \notin Whitespace}
  IN  IF keep = {} THEN <<>> ELSE SubSeq(s, SetMin(keep), SetMax(keep))

\* fault injection: the fallback names another palette
PaletteForOtherFallback(mood) ==
  IF mood \in DOMAIN palettes THEN palettes[mood] ELSE palettes["Romantic"]

\* palettes.get(mood, palettes["Dreamlike"])[:] : a copy, Dreamlike's for an
\* unknown mood
PaletteFor(mood) ==
  IF mood \in DOMAIN palettes THEN palettes[mood] ELSE palettes["Dreamlike"]

\* x[i], x[j] = x[j], x[i] on a 0-based list
Swap(x, i, j) == [x EXCEPT ![i + 1] = x[j + 1], ![j + 1] = x[i + 1]]

\* The outcomes of one random.shuffle of a list of n items: draws[i] is the
\* value of randbelow(i + 1) drawn for position i, for i = n-1 down to 1.
DrawSeqs(n) == {d \in [1..(n - 1) -> 0..(n - 1)] : \A i \in 1..(n - 1) : d[i] <= i}

\* random.shuffle: for i in reversed(range(1, len(x))): swap x[i], x[randbelow(i+1)]
RECURSIVE ShuffleFrom(_, _, _)
ShuffleFrom(x, i, draws) ==
  IF i < 1 THEN x ELSE ShuffleFrom(Swap(x, i, draws[i]), i - 1, draws)

Shuffle(x, draws) == ShuffleFrom(x, Len(x) - 1, draws)

\* fault injection: the window starts one element late
SlotWordsShifted(i, ws) == [k \in 1..6 |-> ws[((i + k) % Len(ws)) + 1]]

\* w1..w6 of the template at 0-based position i: words[(i + k - 1) % len(words)]
SlotWords(i, ws) == [k \in 1..6 |-> ws[((i + k - 1) % Len(ws)) + 1]]

SlotNames == <<"{w1}", "{w2}", "{w3}", "{w4}", "{w5}", "{w6}">>

SlotSet == {SlotNames[k] : k \in 1..6}

SlotOf(tok) == CHOOSE k \in 1..6 : SlotNames[k] = tok

\* t.format(prompt=p, w1=.., .., w6=..): each placeholder of the template is
\* replaced by its value, the literal text is kept, values are not scanned again
RECURSIVE FormatFrom(_, _, _, _)
FormatFrom(t, n, p, w) ==
  IF n > Len(t) THEN <<>>
  ELSE (IF t[n] = "{prompt}" THEN p
        ELSE IF t[n] \in SlotSet THEN <<w[SlotOf(t[n])]>>
        ELSE <<t[n]>>) \o FormatFrom(t, n + 1, p, w)

FormatLine(t, p, w) == FormatFrom(t, 1, p, w)

\* fault injection: the slice stops one line early
TruncateOneShort(ls, target) == SubSeq(ls, 1, Min(target, Len(ls)) - 1)

\* lines[:target]
Truncate(ls, target) == SubSeq(ls, 1, Min(target, Len(ls)))

\* fault injection: the prompt is substituted as given
PromptValueRaw(prompt) == prompt

\* prompt=prompt.strip(), the value handed to str.format
PromptValue(prompt) == Strip(prompt)

\* fault injection: the template list is looked up before the shuffle, so a KeyError
\* leaves the random source untouched
craft_lines_lookup_first(prompt, mood, format, draws) ==
  IF format \notin DOMAIN structures
  THEN [raised |-> "KeyError", words |-> PaletteFor(mood), lines |-> <<>>, consumed |-> 0]
  ELSE LET ws   == Shuffle(PaletteFor(mood), draws)
           tmpl == structures[format]
           p    == PromptValue(prompt)
           all  == [n \in 1..Len(tmpl) |->
                     FormatLine(tmpl[n], p, SlotWords(n - 1, ws))]
       IN  [raised |-> "none", words |-> ws,
            lines |-> Truncate(all, tone_lines[format]), consumed |-> Len(draws)]

\* craft_lines(prompt, mood, format) under the shuffle outcome draws.  The
\* shuffle runs before structures[format] is looked up, so a KeyError leaves
\* the draws consumed.
craft_lines(prompt, mood, format, draws) ==
  LET ws == Shuffle(PaletteFor(mood), draws)
  IN  IF format \notin DOMAIN structures
      THEN [raised |-> "KeyError", words |-> ws, lines |-> <<>>, consumed |-> Len(draws)]
      ELSE LET tmpl == structures[format]
               p    == PromptValue(prompt)
               all  == [n \in 1..Len(tmpl) |->
                         FormatLine(tmpl[n], p, SlotWords(n - 1, ws))]
           IN  [raised |-> "none", words |-> ws,
                lines |-> Truncate(all, tone_lines[format]), consumed |-> Len(draws)]

----------------------------------------------------------------------------
(* image_for *)

\* A run of 500 letters, kept as one token: it makes the 500-character limit
\* of the request reachable with short token sequences.
Run500 == "<500 letters>"

\* tokens made only of the characters urllib.parse.quote never escapes:
\* letters, digits and "_.-~"
AlwaysSafe ==
  {"a", Run500, "abstract", "art", "gradient", "light", "bokeh", "Unknown"} \cup Moods

\* quote(string, safe="/"): the default second argument
QuoteSafe == {"/"}

\* "%XX" of the characters the model's alphabets hold
PercentCode ==
  [c \in {" ", "\n", "\t", ",", "?", "#", "&", "=", "/"} |->
    IF c = " " THEN "%20"
    ELSE IF c = "\n" THEN "%0A"
    ELSE IF c = "\t" THEN "%09"
    ELSE IF c = "," THEN "%2C"
    ELSE IF c = "?" THEN "%3F"
    ELSE IF c = "#" THEN "%23"
    ELSE IF c = "&" THEN "%26"
    ELSE IF c = "=" THEN "%3D"
    ELSE "%2F"]

\* urllib.parse.quote: a token is kept when it is always safe or listed in
\* safe, and replaced by its percent code otherwise
Quote(s) ==
  [n \in 1..Len(s) |->
    IF s[n] \in AlwaysSafe \cup QuoteSafe THEN s[n] ELSE PercentCode[s[n]]]

UrlPrefix == "https://source.unsplash.com/1024x768/?"

\* f"abstract,art,gradient,light,bokeh,{mood},{prompt}"
Keywords(prompt, mood) ==
  <<"abstract", ",", "art", ",", "gradient", ",", "light", ",", "bokeh", ",", mood, ",">>
    \o prompt

image_for(prompt, mood) == <<UrlPrefix>> \o Quote(Keywords(prompt, mood))

----------------------------------------------------------------------------
(* POST /generate *)

MinPromptChars == 1

MaxPromptChars == 500

\* len(prompt) in characters
RECURSIVE CharLen(_)
CharLen(s) ==
  IF s = <<>> THEN 0 ELSE (IF Head(s) = Run500 THEN 500 ELSE 1) + CharLen(Tail(s))

\* fault injection: mood is a plain str field
ValidatesAnyMood(r) ==
  /\ CharLen(r.prompt) >= MinPromptChars
  /\ CharLen(r.prompt) <= MaxPromptChars
  /\ r.format \in Formats

\* GenerateRequest: Field(min_length=1, max_length=500) and the two Literals
Validates(r) ==
  /\ CharLen(r.prompt) >= MinPromptChars
  /\ CharLen(r.prompt) <= MaxPromptChars
  /\ r.mood \in Moods
  /\ r.format \in Formats

\* sep.join(ls)
RECURSIVE Join(_, _)
Join(ls, sep) ==
  IF ls = <<>> THEN <<>>
  ELSE IF Len(ls) = 1 THEN ls[1]
  ELSE ls[1] \o <<sep>> \o Join(Tail(ls), sep)

----------------------------------------------------------------------------
(* State *)

NoArgs == [prompt |-> <<>>, mood |-> "", format |-> ""]

NoResp == [content |-> <<>>, mood |-> "", format |-> "", image_url |-> <<>>]

\* nothing called yet, the random source unused
Quiet ==
  /\ args = NoArgs
  /\ words = <<>>
  /\ lines = <<>>
  /\ error = "none"
  /\ rngDraws = 0
  /\ resp = NoResp
  /\ calls = <<>>
  /\ probe = <<>>

NoReq == [prompt |-> <<>>, mood |-> "", format |-> ""]

NoEnv == <<>>

----------------------------------------------------------------------------
(* Direct calls of craft_lines (a unit test, no validation in front) *)

DirectChars == {" ", "a"}

DirectPrompts == SeqsUpTo(DirectChars, MaxDirectLen)

DirectMoods == Moods \cup {"Unknown"}

DirectFormats == Formats \cup {"Sonnet"}

InitCraft ==
  /\ phase = "called"
  /\ req \in [prompt : DirectPrompts, mood : DirectMoods, format : DirectFormats]
  /\ env = NoEnv
  /\ Quiet

CallCraftLines ==
  /\ phase = "called"
  /\ \E d \in DrawSeqs(Len(PaletteFor(req.mood))) :
       LET r == craft_lines(req.prompt, req.mood, req.format, d)
       IN  /\ rngDraws + r.consumed <= MaxDraws
           /\ args' = req
           /\ words' = r.words
           /\ lines' = r.lines
           /\ error' = r.raised
           /\ phase' = IF r.raised = "none" THEN "returned" ELSE "raised"
           /\ rngDraws' = rngDraws + r.consumed
  /\ UNCHANGED <<req, resp, calls, env, probe>>

\* the caller drops the result; the random source keeps its state
DropResult ==
  /\ phase \in {"returned", "raised"}
  /\ phase' = "done"
  /\ words' = <<>>
  /\ lines' = <<>>
  /\ error' = "none"
  /\ UNCHANGED <<req, args, rngDraws, resp, calls, env, probe>>

NextCraft == CallCraftLines \/ DropResult

SpecCraft == InitCraft /\ [][NextCraft]_vars

----------------------------------------------------------------------------
(* Requests to POST /generate and direct calls of image_for *)

PromptChars == {"\n", "a", Run500}

\* moods of the requests: two of the five tags (the palettes differ in their
\* words only, and SpecCraft runs all of them) and one outside the set
RequestMoods == {"Hopeful", "Dreamlike", "Unknown"}

RawRequests ==
  [prompt : SeqsUpTo(PromptChars, MaxPromptLen),
   mood   : RequestMoods,
   format : Formats \cup {"Sonnet"}]

InitGenerate ==
  /\ phase = "received"
  /\ req \in RawRequests
  /\ env = NoEnv
  /\ Quiet

\* the request model refuses the body: the handler is not entered
RejectRequest ==
  /\ phase = "received"
  /\ ~Validates(req)
  /\ phase' = "rejected"
  /\ UNCHANGED <<req, args, words, lines, error, rngDraws, resp, calls, env, probe>>

\* generate_text(req); words is a local of craft_lines and is gone on return
generate_text ==
  /\ phase = "received"
  /\ Validates(req)
  /\ \E d \in DrawSeqs(Len(PaletteFor(req.mood))) :
       LET r == craft_lines(req.prompt, req.mood, req.format, d)
       IN  /\ rngDraws + r.consumed <= MaxDraws
           /\ args' = req
           /\ lines' = r.lines
           /\ error' = r.raised
           /\ rngDraws' = rngDraws + r.consumed
           /\ IF r.raised = "none"
              THEN /\ phase' = "responded"
                   /\ resp' = [content   |-> Join(r.lines, "\n"),
                               mood      |-> req.mood,
                               format    |-> req.format,
                               image_url |-> image_for(req.prompt, req.mood)]
              ELSE /\ phase' = "raised"
                   /\ resp' = resp
  /\ UNCHANGED <<req, words, calls, env, probe>>

NextGenerate == RejectRequest \/ generate_text

SpecGenerate == InitGenerate /\ [][NextGenerate]_vars

UrlChars == {"a", " ", "/", "?", "#", "&", "=", ","}

MaxUrlLen == 2

InitImage ==
  /\ phase = "called"
  /\ req \in [prompt : SeqsUpTo(UrlChars, MaxUrlLen),
              mood   : {"Hopeful", "/", "?"},
              format : {""}]
  /\ env = NoEnv
  /\ Quiet

CallImageFor ==
  /\ phase = "called"
  /\ phase' = "returned"
  /\ resp' = [NoResp EXCEPT !.image_url = image_for(req.prompt, req.mood)]
  /\ UNCHANGED <<req, args, words, lines, error, rngDraws, calls, env, probe>>

NextImage == CallImageFor

SpecImage == InitImage /\ [][NextImage]_vars

----------------------------------------------------------------------------
(* GET /test *)

\* what the probe finds around it: the outcome of "from database import db"
\* ("ImportError", another exception, db is None, db is there), of reading
\* db.name (no such attribute, a value, an exception), of
\* db.list_collection_names() (n names or an exception), the length of the
\* exception's message, and whether the two environment variables are set
Environments ==
  [import  : {"ImportError", "RuntimeError", "None", "db"},
   name    : {"absent", "value", "RuntimeError"},
   listing : {"ok", "RuntimeError"},
   names   : 0..MaxCollections,
   msgLen  : {0, 50, 51},
   urlSet  : BOOLEAN,
   nameSet : BOOLEAN]

\* collections[:10]
ShownCollections == 10

\* str(e)[:50]
ShownMessage == 50

\* the names db.list_collection_names() returns, told apart by their position
Names(n) == [i \in 1..n |-> i]

\* the response dict as built at the top of test_database
FreshResponse ==
  [backend           |-> "Running",
   database          |-> <<"Not Available">>,
   database_url      |-> "None",
   database_name     |-> "None",
   connection_status |-> "Not Connected",
   collections       |-> <<>>]

\* the inner try: listing the collections, its except Exception included
ListCollections(r, e) ==
  IF e.listing = "ok"
  THEN [r EXCEPT !.collections = SubSeq(Names(e.names), 1, Min(ShownCollections, e.names)),
                 !.database = <<"Connected & Working">>]
  ELSE [r EXCEPT !.database = <<"Connected but Error: ", Min(e.msgLen, ShownMessage)>>]

\* the body of the outer try: the response it leaves and the exception that
\* leaves it, "none" when it runs to its end
TryBody(e) ==
  IF e.import \in {"ImportError", "RuntimeError"}
  THEN [exc |-> e.import, r |-> FreshResponse]
  ELSE IF e.import = "None"
  THEN [exc |-> "none",
        r |-> [FreshResponse EXCEPT !.database = <<"Available but not initialized">>]]
  ELSE LET r1 == [FreshResponse EXCEPT !.database = <<"Available">>,
                                       !.database_url = "Configured"]
       IN  IF e.name = "RuntimeError"
           THEN [exc |-> "RuntimeError", r |-> r1]
           ELSE LET r2 == [r1 EXCEPT
                             !.database_name = IF e.name = "value" THEN "db.name"
                                               ELSE "Connected",
                             !.connection_status = "Connected"]
                IN  [exc |-> "none", r |-> ListCollections(r2, e)]

\* fault injection: the outer try has the except ImportError clause only
CaughtNothing(exc) == FALSE

\* the exceptions the clause "except Exception as e" of the outer try catches
CaughtByExceptException(exc) == exc \in {"ImportError", "RuntimeError"}

\* test_database(): the response it returns, or the exception it lets out
test_database(e) ==
  LET b == TryBody(e)
      r == IF b.exc = "none" THEN b.r
           ELSE IF b.exc = "ImportError"
           THEN [b.r EXCEPT !.database = <<"Database module not found (run enable-database first)">>]
           ELSE [b.r EXCEPT !.database = <<"Error: ", Min(e.msgLen, ShownMessage)>>]
  IN  IF b.exc # "none" /\ b.exc # "ImportError" /\ ~CaughtByExceptException(b.exc)
      THEN [raised |-> b.exc, response |-> <<>>]
      ELSE [raised |-> "none",
            response |-> [r EXCEPT
                            !.database_url = IF e.urlSet THEN "Set" ELSE "Not Set",
                            !.database_name = IF e.nameSet THEN "Set" ELSE "Not Set"]]

InitProbe ==
  /\ phase = "called"
  /\ req = NoReq
  /\ env \in Environments
  /\ Quiet

CallTestDatabase ==
  /\ phase = "called"
  /\ LET out == test_database(env)
     IN  /\ error' = out.raised
         /\ probe' = out.response
         /\ phase' = IF out.raised = "none" THEN "returned" ELSE "raised"
  /\ UNCHANGED <<req, args, words, lines, rngDraws, resp, calls, env>>

NextProbe == CallTestDatabase

SpecProbe == InitProbe /\ [][NextProbe]_vars

----------------------------------------------------------------------------
(* Concurrent calls of craft_lines: the worker threads of the server run    *)
(* handlers side by side, and a thread may be preempted between two swaps   *)
(* of random.shuffle.  Each call has its own locals; the random source is   *)
(* the one object the calls share.                                          *)

Callers == {"t1", "t2"}

ConcurrentMoods == {"Hopeful", "Unknown"}

IdleCall == [pc |-> "idle", mood |-> "", palette |-> <<>>, words |-> <<>>, i |-> 0]

\* lines 34-40 and 90: the call builds its own palettes dict, looks the mood
\* up in it and copies the list found
EnterCall(mood) ==
  LET found == PaletteFor(mood)
  IN  [pc |-> "shuffling", mood |-> mood, palette |-> found, words |-> found,
       i |-> Len(found) - 1]

\* fault injection: no copy was taken, words is the list of the palette table itself
SwapStepAliased(call, j) ==
  [call EXCEPT !.words = Swap(call.words, call.i, j),
               !.palette = Swap(call.words, call.i, j),
               !.i = call.i - 1,
               !.pc = IF call.i - 1 < 1 THEN "shuffled" ELSE "shuffling"]

\* one round of the loop of random.shuffle(words): the swap writes the copy
SwapStep(call, j) ==
  [call EXCEPT !.words = Swap(call.words, call.i, j),
               !.i = call.i - 1,
               !.pc = IF call.i - 1 < 1 THEN "shuffled" ELSE "shuffling"]

InitConcurrent ==
  /\ phase = "serving"
  /\ req = NoReq
  /\ env = NoEnv
  /\ args = NoArgs
  /\ words = <<>>
  /\ lines = <<>>
  /\ error = "none"
  /\ rngDraws = 0
  /\ resp = NoResp
  /\ probe = <<>>
  /\ calls = [c \in Callers |-> IdleCall]

Enter(c) ==
  /\ calls[c].pc = "idle"
  /\ \E m \in ConcurrentMoods : calls' = [calls EXCEPT ![c] = EnterCall(m)]
  /\ UNCHANGED <<phase, req, args, words, lines, error, rngDraws, resp, env, probe>>

\* j = randbelow(i + 1) is drawn from the shared source, then the swap
ShuffleStep(c) ==
  /\ calls[c].pc = "shuffling"
  /\ rngDraws < MaxDraws
  /\ \E j \in 0..calls[c].i : calls' = [calls EXCEPT ![c] = SwapStep(calls[c], j)]
  /\ rngDraws' = rngDraws + 1
  /\ UNCHANGED <<phase, req, args, words, lines, error, resp, env, probe>>

\* lines 93-105 read the shuffled list only; on return the locals are gone
ReturnLines(c) ==
  /\ calls[c].pc = "shuffled"
  /\ calls' = [calls EXCEPT ![c] = IdleCall]
  /\ UNCHANGED <<phase, req, args, words, lines, error, rngDraws, resp, env, probe>>

NextConcurrent == \E c \in Callers : Enter(c) \/ ShuffleStep(c) \/ ReturnLines(c)

SpecConcurrent == InitConcurrent /\ [][NextConcurrent]_vars

----------------------------------------------------------------------------
(* Properties of craft_lines *)

\* where the token at position p of template t lands in the filled line, when
\* the prompt placeholder was replaced by n tokens
OutPos(t, p, n) == p + (IF \E q \in 1..(p - 1) : t[q] = "{prompt}" THEN n - 1 ELSE 0)

\* the slots filled in the returned lines: <<line, slot number, word found there>>
Substituted ==
  IF phase # "returned" \/ args.format \notin Formats THEN {}
  ELSE LET tmpl == structures[args.format]
           n    == Len(Strip(args.prompt))
       IN  {<<l, SlotOf(tmpl[l][p]), lines[l][OutPos(tmpl[l], p, n)]>> :
              <<l, p>> \in {x \in (1..Len(lines)) \X (1..6) :
                              /\ x[2] <= Len(tmpl[x[1]])
                              /\ tmpl[x[1]][x[2]] \in SlotSet}}

\* C1: craft_lines returns exactly the target number of lines of the format
\* (Poem 8, Short Story 14, Haiku 3, Microfiction 5) for every mood, known or
\* not, every prompt and every shuffle outcome.
C1_LineCount ==
  phase = "returned" =>
    /\ args.format = "Poem" => Len(lines) = 8
    /\ args.format = "Short Story" => Len(lines) = 14
    /\ args.format = "Haiku" => Len(lines) = 3
    /\ args.format = "Microfiction" => Len(lines) = 5
    /\ args.format \in Formats

C1_Witness ==
  /\ phase = "returned"
  /\ args.format = "Short Story"
  /\ args.mood = "Unknown"
  /\ Len(lines) = 14

\* C3: every word put into a w1..w6 slot of a returned line belongs to the
\* palette of the mood; an unknown mood does not fail and draws every word
\* from the Dreamlike palette.
C3_WordsFromPalette ==
  /\ (phase = "raised" => args.format \notin Formats)
  /\ \A s \in Substituted :
       /\ args.mood = "Romantic" =>
            s[3] \in {"rose", "heartbeat", "velvet", "starlit", "whisper", "tender"}
       /\ args.mood = "Melancholic" =>
            s[3] \in {"rain", "echo", "ashen", "window", "ache", "distant"}
       /\ args.mood = "Hopeful" =>
            s[3] \in {"dawn", "warmth", "seed", "lift", "promise", "bright"}
       /\ args.mood = "Dreamlike" =>
            s[3] \in {"silk", "float", "mist", "lantern", "lucid", "drift"}
       /\ args.mood = "Haunting" =>
            s[3] \in {"hollow", "candle", "shadow", "marrow", "threshold", "murmur"}
       /\ args.mood \notin Moods =>
            s[3] \in {"silk", "float", "mist", "lantern", "lucid", "drift"}

C3_Witness ==
  /\ phase = "returned"
  /\ args.mood = "Unknown"
  /\ args.format = "Poem"
  /\ <<5, 6, "lantern">> \in Substituted

\* C8: the word in slot {wk} of the line at 0-based position i is element
\* (i + k - 1) mod len of the shuffled palette; the six words derived for one
\* line are pairwise distinct; a word occurs in two slots of one call only
\* where both slots index the same element of the shuffled palette.
C8_RotatingWindow ==
  phase = "returned" =>
    /\ \A s \in Substituted : s[3] = words[(((s[1] - 1) + s[2] - 1) % Len(words)) + 1]
    /\ \A l \in 1..Len(lines) : \A j, k \in 1..6 :
         j # k => words[((l - 1 + j - 1) % Len(words)) + 1]
                    # words[((l - 1 + k - 1) % Len(words)) + 1]
    /\ \A s, t \in Substituted :
         s[3] = t[3] => (s[1] + s[2]) % Len(words) = (t[1] + t[2]) % Len(words)

\* a wraparound: line 4 (i = 3) takes w5 from index 7 mod 6 = 1, the element
\* line 1 (i = 0) took for w2
C8_Witness ==
  /\ phase = "returned"
  /\ args.format = "Poem"
  /\ \E w \in {"dawn"} : <<1, 2, w>> \in Substituted /\ <<4, 5, w>> \in Substituted

\* C9 (as amended): a call with an unknown format fails with KeyError and
\* returns no lines, after the shuffle has consumed its draws from the shared
\* random source: len(palette) - 1 draws.
C9_FailsAfterShuffle ==
  [][(phase = "called" /\ phase' = "raised") =>
       /\ args'.format \notin Formats
       /\ error' = "KeyError"
       /\ lines' = <<>>
       /\ rngDraws' = rngDraws + Len(PaletteFor(args'.mood)) - 1]_vars

C9_Witness ==
  /\ phase = "raised"
  /\ args.format = "Sonnet"
  /\ error = "KeyError"
  /\ rngDraws = 5

\* C9 (as claimed): the failed call leaves the random source as it was.
C9_RandomSourceUntouched ==
  [][(phase = "called" /\ phase' = "raised") =>
       (error' = "KeyError" /\ lines' = <<>> /\ rngDraws' = rngDraws)]_vars

\* the position of the prompt placeholder in template t, 0 when it has none
PromptPos(t) ==
  IF \E q \in 1..Len(t) : t[q] = "{prompt}"
  THEN CHOOSE q \in 1..Len(t) : t[q] = "{prompt}"
  ELSE 0

\* C4 (as amended): a returned line whose template holds {prompt} holds the
\* trimmed prompt, verbatim, in the placeholder's place and nothing else of
\* the prompt; a returned line whose template has no {prompt} is the template
\* with only its word slots filled, whatever the prompt is.
C4_PromptInPlace ==
  phase = "returned" =>
    \A l \in 1..Len(lines) :
      LET t == structures[args.format][l]
          q == PromptPos(t)
          p == Strip(args.prompt)
      IN  IF q > 0
          THEN /\ Len(lines[l]) = Len(t) - 1 + Len(p)
               /\ SubSeq(lines[l], q, q + Len(p) - 1) = p
               /\ Contains(lines[l], p)
          ELSE /\ Len(lines[l]) = Len(t)
               /\ \A n \in 1..Len(t) : t[n] \notin SlotSet => lines[l][n] = t[n]

C4_Witness ==
  /\ phase = "returned"
  /\ args.format = "Microfiction"
  /\ args.prompt = <<"a">>
  /\ lines[1] = <<"We met where ", "a", " became ", "a", " password.">>

\* C4 (as claimed): a line whose template holds {prompt} contains the trimmed
\* prompt, and a line whose template has no {prompt} does not contain it.
C4_PromptOnlyWherePlaced ==
  phase = "returned" =>
    \A l \in 1..Len(lines) :
      Contains(lines[l], Strip(args.prompt))
        <=> PromptPos(structures[args.format][l]) > 0

----------------------------------------------------------------------------
(* Properties of POST /generate *)

\* content.split("\n")
RECURSIVE SplitNewline(_)
SplitNewline(s) ==
  LET at == {i \in 1..Len(s) : s[i] = "\n"}
  IN  IF at = {} THEN <<s>>
      ELSE <<SubSeq(s, 1, SetMin(at) - 1)>>
             \o SplitNewline(SubSeq(s, SetMin(at) + 1, Len(s)))

\* C2: the content of the response to a valid request, split on the newline
\* character, has exactly the target number of lines of the format, whatever
\* the prompt holds.
C2_ContentLineCount ==
  phase = "responded" =>
    Len(SplitNewline(resp.content)) =
      (CASE resp.format = "Poem" -> 8
         [] resp.format = "Short Story" -> 14
         [] resp.format = "Haiku" -> 3
         [] resp.format = "Microfiction" -> 5)

\* C5 (as amended): a request with an empty prompt, a prompt of more than 500
\* characters, a mood outside the five tags or a format outside the four is
\* rejected and craft_lines does not run; craft_lines runs only with a known
\* mood, a known format and a prompt of 1 to 500 characters, so it takes
\* neither the Dreamlike fallback nor the unknown-format failure.
C5_ValidatedBeforeCraft ==
  /\ phase = "rejected" =>
       /\ args = NoArgs
       /\ lines = <<>>
       /\ rngDraws = 0
       /\ resp = NoResp
  /\ (\/ req.prompt = <<>>
      \/ CharLen(req.prompt) > 500
      \/ req.mood \notin {"Romantic", "Melancholic", "Hopeful", "Dreamlike", "Haunting"}
      \/ req.format \notin {"Poem", "Short Story", "Haiku", "Microfiction"})
       => phase \in {"received", "rejected"}
  /\ args # NoArgs =>
       /\ args = req
       /\ args.mood \in {"Romantic", "Melancholic", "Hopeful", "Dreamlike", "Haunting"}
       /\ args.format \in {"Poem", "Short Story", "Haiku", "Microfiction"}
       /\ args.prompt # <<>>
       /\ CharLen(args.prompt) <= 500
       /\ error = "none"
       /\ phase = "responded"

C5_Witness ==
  /\ phase = "rejected"
  /\ req.prompt = <<Run500, "a">>
  /\ req.mood = "Hopeful"
  /\ req.format = "Haiku"

\* C5 (as claimed): in addition, the prompt that reaches the substitution,
\* prompt.strip(), is not empty.
C5_SubstitutedPromptNonEmpty ==
  C5_ValidatedBeforeCraft /\ (args # NoArgs => Strip(args.prompt) # <<>>)

----------------------------------------------------------------------------
(* Properties of image_for *)

\* RFC 3986: gen-delims and sub-delims
Reserved ==
  {":", "/", "?", "#", "[", "]", "@", "!", "$", "&", "'", "(", ")", "*", "+", ",", ";", "="}

\* C6: the URL is the fixed prefix followed by the quoted keyword string, in
\* which every reserved character and every space of the prompt and the mood
\* is percent-encoded.
C6_ReservedEscaped ==
  phase = "returned" =>
    /\ resp.image_url[1] = UrlPrefix
    /\ Len(resp.image_url) = 13 + Len(req.prompt)
    /\ \A n \in 2..Len(resp.image_url) : resp.image_url[n] \notin Reserved \cup {" "}

----------------------------------------------------------------------------
(* Properties of GET /test *)

\* C7: the probe never raises; whatever the import and the listing do, it
\* returns a response whose "database" field is a status text and whose
\* "collections" holds at most 10 names: the first 10 listed when the listing
\* succeeds, none otherwise.
C7_ProbeNeverRaises ==
  /\ phase # "raised"
  /\ phase = "returned" =>
       /\ error = "none"
       /\ probe.database[1] \in
            {"Database module not found (run enable-database first)", "Error: ",
             "Available but not initialized", "Connected & Working",
             "Connected but Error: "}
       /\ Len(probe.collections) <= 10
       /\ IF env.import = "db" /\ env.name # "RuntimeError" /\ env.listing = "ok"
          THEN /\ Len(probe.collections) = (IF env.names < 10 THEN env.names ELSE 10)
               /\ \A i \in 1..Len(probe.collections) : probe.collections[i] = i
          ELSE probe.collections = <<>>

C7_Witness ==
  /\ phase = "returned"
  /\ env.import = "db"
  /\ env.listing = "ok"
  /\ env.names = 12
  /\ Len(probe.collections) = 10
  /\ probe.database = <<"Connected & Working">>

----------------------------------------------------------------------------
(* Properties of concurrent calls *)

IsPermutationOf(x, y) ==
  /\ Len(x) = Len(y)
  /\ \A n \in 1..Len(y) : Cardinality({k \in 1..Len(x) : x[k] = y[n]}) = 1

OriginalPalette(mood) ==
  CASE mood = "Romantic" -> <<"rose", "heartbeat", "velvet", "starlit", "whisper", "tender">>
    [] mood = "Melancholic" -> <<"rain", "echo", "ashen", "window", "ache", "distant">>
    [] mood = "Hopeful" -> <<"dawn", "warmth", "seed", "lift", "promise", "bright">>
    [] mood = "Haunting" -> <<"hollow", "candle", "shadow", "marrow", "threshold", "murmur">>
    [] OTHER -> <<"silk", "float", "mist", "lantern", "lucid", "drift">>

\* C10: under every interleaving of concurrent calls, each call starts from
\* the original fixed-order palette of its mood, the palette it looked up
\* stays as it was, its working list is at every step a permutation of that
\* palette, and a step of one call changes nothing of another call.
C10_CallLocalShuffle ==
  /\ [](\A c \in Callers : calls[c].pc # "idle" =>
          /\ calls[c].palette = OriginalPalette(calls[c].mood)
          /\ IsPermutationOf(calls[c].words, OriginalPalette(calls[c].mood)))
  /\ [][\A c \in Callers :
          /\ (calls[c].pc = "idle" /\ calls'[c].pc # "idle") =>
               calls'[c].words = OriginalPalette(calls'[c].mood)
          /\ calls'[c] # calls[c] => \A d \in Callers \ {c} : calls'[d] = calls[d]]_vars

\* both calls in the middle of their shuffles, each with a list of its own
\* that is no longer in palette order, one of them nearly done
C10_Witness ==
  /\ calls["t1"].pc = "shuffled"
  /\ calls["t2"].pc = "shuffling"
  /\ calls["t1"].mood = "Hopeful"
  /\ calls["t2"].mood = "Hopeful"
  /\ calls["t1"].words # calls["t1"].palette
  /\ calls["t2"].words # calls["t2"].palette
  /\ calls["t1"].words # calls["t2"].words

====
